---- MODULE Spec2Model ----
(***************************************************************************)
(* A state-machine model of the thumbnail composer in src/src/App.tsx:     *)
(* the React component's state (useState / useRef cells), its event        *)
(* handlers, its three effects (template loading, image loading, canvas    *)
(* rendering), the localStorage key it persists templates under, and the   *)
(* asynchronous completions it waits for (file reads, image decodes, the   *)
(* export timer).                                                          *)
(*                                                                         *)
(* Conventions.  Layer indices are the source's 0-based indices; the       *)
(* layer list is a TLA+ sequence, so index i is element i + 1 (see At).    *)
(* JavaScript null is NullIndex for "number | null" cells and NullStr for  *)
(* "string | null" cells.  Numbers are integers, except the height of an   *)
(* image layer, which the source computes by a division and which is kept  *)
(* as an exact fraction.  Non-ASCII string literals of the source are      *)
(* replaced by ASCII stand-ins named in the comments.                      *)
(***************************************************************************)
EXTENDS Integers, Sequences, FiniteSets, TLC

(***************************************************************************)
(* Bounds of the model (not program constants).                            *)
(***************************************************************************)
\* most layers the layer list may hold
MaxLayers == 2
\* most templates the template list may hold
MaxTemplates == 2
\* most addLayer('image') pipelines (picker, file read, decode) in flight
MaxImageAdds == 1
\* most export timers (setTimeout of handleDownload) pending
MaxTimers == 1
\* most decodes of the image loading effect in flight
MaxLoads == 2

VARIABLES
    canvasSize,          \* useState, line 39
    backgroundColor,     \* useState, line 40
    backgroundImage,     \* useState, line 41: a source string or NullStr
    borderOptions,       \* useState, line 42
    dateOptions,         \* useState, line 43
    layers,              \* useState, line 44
    selectedLayerIndex,  \* useState, line 52: a 0-based index or NullIndex
    imageObjects,        \* useState, line 53: the keys of the decoded-image cache
    templates,           \* useState, line 54: a tagged JavaScript value
    dragInfo,            \* useRef, line 57
    storage,             \* localStorage['thumbnailer_templates']
    canvas,              \* what the last run of the render effect painted
    mounted,             \* whether the mount effects have run
    picker,              \* open file pickers of addLayer('image'), each with its closure
    imageAdds,           \* addLayer('image') file reads / decodes in flight
    bgReads,             \* background-image file reads in flight
    imageLoads,          \* decodes started by the image loading effect, in flight
    timers,              \* pending export timers of handleDownload
    exported,            \* the image captured by the last export (or no export yet)
    savedScenes,         \* history: for each stored template, the scene it was saved from
    templateRefs,        \* for each entry of templates, which array its layers field is:
                         \* 0 is the array the layers cell holds, the others are
                         \* numbered from 1 in the order of the entries
    lastOp               \* the event last handled, with its input

vars == <<canvasSize, backgroundColor, backgroundImage, borderOptions, dateOptions,
          layers, selectedLayerIndex, imageObjects, templates, dragInfo, storage,
          canvas, mounted, picker, imageAdds, bgReads, imageLoads, timers,
          exported, savedScenes, templateRefs, lastOp>>

(***************************************************************************)
(* JavaScript values.                                                      *)
(***************************************************************************)
\* null in a "number | null" cell (selectedLayerIndex, dragInfo.targetIndex)
NullIndex == 0 - 1
\* null in a "string | null" cell (backgroundImage, the result of prompt)
NullStr == "<null>"

\* a 0-based index into a sequence
At(s, i) == s[i + 1]

\* Array.prototype.filter by position: the elements at the positions in keep, in
\* their order
KeepAt(s, keep) ==
    LET nth(k) == CHOOSE i \in keep : Cardinality({ j \in keep : j < i }) = k - 1
    IN  [k \in 1..Cardinality(keep) |-> s[nth(k)]]

\* exact fractions n/d with d > 0, in lowest terms
RECURSIVE Gcd(_, _)
Gcd(a, b) == IF b = 0 THEN a ELSE Gcd(b, a % b)
Frac(n, d) == LET g == Gcd(IF n < 0 THEN 0 - n ELSE n, d)
              IN  [n |-> n \div g, d |-> d \div g]
FracOfInt(i) == [n |-> i, d |-> 1]
FracMul(a, b) == Frac(a.n * b.n, a.d * b.d)
FracSub(a, b) == Frac(a.n * b.d - b.n * a.d, a.d * b.d)
FracAdd(a, b) == Frac(a.n * b.d + b.n * a.d, a.d * b.d)
FracHalf(a) == Frac(a.n, 2 * a.d)
FracLeq(a, b) == a.n * b.d <= b.n * a.d

(***************************************************************************)
(* The data of the program.                                                *)
(***************************************************************************)
\* the three canvas sizes the size buttons set
CanvasSizes == { [width |-> 1280, height |-> 720],
                 [width |-> 1080, height |-> 1920],
                 [width |-> 1080, height |-> 1080] }

\* "DEFAULT_TEXT" stands for the initial content (9 glyphs), "NEW_TEXT" for the
\* content of an added text layer (5 glyphs)
InitialLayer ==
    [type |-> "text", content |-> "DEFAULT_TEXT", x |-> 1280 \div 2, y |-> 720 \div 2,
     fontSize |-> 80, fontFamily |-> "Gmarket Sans", fontWeight |-> "bold",
     color |-> "#FFFFFF", strokeColor |-> "#000000", strokeWidth |-> 6,
     shadowColor |-> "rgba(0,0,0,0.5)", shadowBlur |-> 10, shadowOffsetX |-> 5,
     shadowOffsetY |-> 5, shadowEnabled |-> TRUE]

\* canvasSize.width / 2 is exact for the three canvas sizes
NewTextLayer(size) ==
    [type |-> "text", content |-> "NEW_TEXT", x |-> size.width \div 2,
     y |-> size.height \div 2,
     fontSize |-> 48, fontFamily |-> "Arial", fontWeight |-> "bold", color |-> "#FFFFFF",
     strokeColor |-> "#000000", strokeWidth |-> 2,
     shadowColor |-> "rgba(0,0,0,0.5)", shadowBlur |-> 5, shadowOffsetX |-> 2,
     shadowOffsetY |-> 2, shadowEnabled |-> FALSE]

\* an image layer that caps the width and keeps the natural height
NewImageLayerUnscaled(img, size) ==
    [type |-> "image", src |-> img.src, x |-> size.width \div 2,
     y |-> size.height \div 2,
     width |-> IF img.width > 300 THEN 300 ELSE img.width,
     height |-> FracOfInt(img.height)]

\* img.onload of addLayer: img is the decoded file, size the canvasSize of the
\* closure that opened the picker
NewImageLayer(img, size) ==
    LET aspectRatio == Frac(img.height, img.width)
        newWidth == IF img.width > 300 THEN 300 ELSE img.width
    IN  [type |-> "image", src |-> img.src, x |-> size.width \div 2,
         y |-> size.height \div 2,
         width |-> newWidth, height |-> FracMul(FracOfInt(newWidth), aspectRatio)]

\* const selectedLayer = selectedLayerIndex !== null ? layers[selectedLayerIndex] : null
\* (an index outside the list reads undefined, which is as falsy as null)
HasSelectedLayer(ls, sel) == sel # NullIndex /\ sel >= 0 /\ sel < Len(ls)

(***************************************************************************)
(* The environment: files the user can pick, pointer positions, text       *)
(* metrics.                                                                *)
(***************************************************************************)
\* image files: the data URI the FileReader yields and the decoded natural size
ImageFiles == { [src |-> "data:wide", width |-> 600, height |-> 400],
                [src |-> "data:small", width |-> 200, height |-> 100],
                [src |-> "data:tall", width |-> 300, height |-> 900],
                [src |-> "data:odd", width |-> 301, height |-> 7],
                [src |-> "data:dot", width |-> 1, height |-> 1] }

\* ctx.measureText(layer.content).width under the layer's font: every glyph is
\* taken to be one em wide
Glyphs(content) == CASE content = "DEFAULT_TEXT" -> 9
                     [] content = "NEW_TEXT" -> 5
                     [] OTHER -> 2
MeasureText(layer) == Glyphs(layer.content) * layer.fontSize

\* the sources (data URIs) of the files the user can pick
Srcs == { f.src : f \in ImageFiles }

\* canvas positions a pointer event can carry (getMousePos has already mapped
\* client coordinates to canvas coordinates)
PointerPositions == { [x |-> 640, y |-> 360], [x |-> 650, y |-> 370],
                      [x |-> 300, y |-> 150], [x |-> 10, y |-> 10] }

\* what prompt() can return: null (cancel), the empty string, a name
PromptResults == { NullStr, "", "A", "B" }

\* colours the background colour input can send
BackgroundColors == { "#1a1a1a", "#ff0000" }

\* edits the layer controls can send for a text layer and for an image layer
\* ("EDITED" stands for a text typed into the textarea, 2 glyphs)
TextEdits == { [prop |-> "content", value |-> "EDITED"],
               [prop |-> "fontSize", value |-> 300] }
ImageEdits == { [prop |-> "width", value |-> 50],
                [prop |-> "height", value |-> FracOfInt(50)] }

(***************************************************************************)
(* JSON and localStorage.  The text under the storage key is absent, or    *)
(* the empty string, or text JSON.parse rejects, or a JSON document: null, *)
(* an object, or an array of template objects.                             *)
(***************************************************************************)
NoItem == [present |-> FALSE]
Item(text) == [present |-> TRUE, text |-> text]
EmptyText == [syntax |-> "empty"]
InvalidText == [syntax |-> "invalid"]
JsonText(doc) == [syntax |-> "json", doc |-> doc]
JsonNull == [t |-> "null"]
JsonObject == [t |-> "object"]
JsonArray(items) == [t |-> "array", items |-> items]

\* JavaScript values the templates cell can hold
JsArray(items) == [tag |-> "array", items |-> items]
JsNull == [tag |-> "null"]
JsObject == [tag |-> "object"]

\* JSON.stringify of a layer: every own property, numbers and strings as they are
JsonOfLayer(l) ==
    IF l.type = "text"
    THEN [type |-> l.type, content |-> l.content, x |-> l.x, y |-> l.y,
          fontSize |-> l.fontSize, fontFamily |-> l.fontFamily,
          fontWeight |-> l.fontWeight, color |-> l.color,
          strokeColor |-> l.strokeColor, strokeWidth |-> l.strokeWidth,
          shadowColor |-> l.shadowColor, shadowBlur |-> l.shadowBlur,
          shadowOffsetX |-> l.shadowOffsetX, shadowOffsetY |-> l.shadowOffsetY,
          shadowEnabled |-> l.shadowEnabled]
    ELSE [type |-> l.type, src |-> l.src, x |-> l.x, y |-> l.y,
          width |-> l.width, height |-> l.height]

\* JSON.stringify of a Template object: the six properties saveTemplate gives it
JsonOfTemplate(t) ==
    [name |-> t.name,
     layers |-> [i \in 1..Len(t.layers) |-> JsonOfLayer(t.layers[i])],
     canvasSize |-> [width |-> t.canvasSize.width, height |-> t.canvasSize.height],
     backgroundColor |-> t.backgroundColor,
     borderOptions |-> [color |-> t.borderOptions.color, width |-> t.borderOptions.width,
                        enabled |-> t.borderOptions.enabled],
     dateOptions |-> [enabled |-> t.dateOptions.enabled]]

\* JSON.stringify(newTemplates)
JsonStringify(items) ==
    JsonText(JsonArray([i \in 1..Len(items) |-> JsonOfTemplate(items[i])]))

\* the value JSON.parse builds from a document: the objects of an array become
\* the Template objects the code takes them for
FromJson(doc) ==
    CASE doc.t = "null" -> JsNull
      [] doc.t = "object" -> JsObject
      [] OTHER -> JsArray([i \in 1..Len(doc.items) |->
                     [name |-> doc.items[i].name,
                      layers |-> doc.items[i].layers,
                      canvasSize |-> doc.items[i].canvasSize,
                      backgroundColor |-> doc.items[i].backgroundColor,
                      borderOptions |-> doc.items[i].borderOptions,
                      dateOptions |-> doc.items[i].dateOptions]])

\* JSON.parse(text): throws a SyntaxError on text that is not JSON
JsonParse(text) ==
    IF text.syntax = "json"
    THEN [threw |-> FALSE, value |-> FromJson(text.doc)]
    ELSE [threw |-> TRUE]

\* the template loading effect: JSON.parse(getItem(key) || '[]'), with its catch
LoadedTemplates(st) ==
    LET text == IF st.present /\ st.text.syntax # "empty"
                THEN st.text
                ELSE JsonText(JsonArray(<<>>))
        parsed == JsonParse(text)
    IN  IF parsed.threw THEN JsArray(<<>>) ELSE parsed.value

\* the render of the template list calls templates.map: anything but an array
\* throws, and React unmounts the component
Crashed == templates.tag # "array"

(***************************************************************************)
(* The render effect.  The canvas is the sequence of drawing steps of the  *)
(* last run.                                                               *)
(***************************************************************************)
\* a render that paints the layers from the last to the first
RenderReversed(size, bgColor, bgImage, border, date, ls, imgs, sel) ==
    LET background ==
            IF bgImage # NullStr /\ bgImage \in imgs
            THEN <<[op |-> "background", image |-> bgImage]>>
            ELSE <<[op |-> "background", color |-> bgColor]>>
        borderStep ==
            IF border.enabled /\ border.width > 0
            THEN <<[op |-> "border", color |-> border.color, width |-> border.width]>>
            ELSE <<>>
        dateStep == IF date.enabled THEN <<[op |-> "date"]>> ELSE <<>>
        all == [i \in 1..Len(ls) |->
                   [op |-> "layer", index |-> Len(ls) - i, layer |-> ls[Len(ls) + 1 - i]]]
        drawn(s) == s.layer.type = "text" \/ s.layer.src \in imgs
        selection ==
            IF HasSelectedLayer(ls, sel)
            THEN <<[op |-> "selection", index |-> sel, layer |-> At(ls, sel)]>>
            ELSE <<>>
    IN  [width |-> size.width, height |-> size.height,
         ops |-> background \o borderStep \o dateStep \o SelectSeq(all, drawn)
                 \o selection]

\* a render that draws every image layer and the background image without
\* looking into the cache
RenderUndecoded(size, bgColor, bgImage, border, date, ls, imgs, sel) ==
    LET background ==
            IF bgImage # NullStr
            THEN <<[op |-> "background", image |-> bgImage]>>
            ELSE <<[op |-> "background", color |-> bgColor]>>
        borderStep ==
            IF border.enabled /\ border.width > 0
            THEN <<[op |-> "border", color |-> border.color, width |-> border.width]>>
            ELSE <<>>
        dateStep == IF date.enabled THEN <<[op |-> "date"]>> ELSE <<>>
        all == [i \in 1..Len(ls) |-> [op |-> "layer", index |-> i - 1, layer |-> ls[i]]]
        selection ==
            IF HasSelectedLayer(ls, sel)
            THEN <<[op |-> "selection", index |-> sel, layer |-> At(ls, sel)]>>
            ELSE <<>>
    IN  [width |-> size.width, height |-> size.height,
         ops |-> background \o borderStep \o dateStep \o all \o selection]

Render(size, bgColor, bgImage, border, date, ls, imgs, sel) ==
    LET background ==
            IF bgImage # NullStr /\ bgImage \in imgs
            THEN <<[op |-> "background", image |-> bgImage]>>
            ELSE <<[op |-> "background", color |-> bgColor]>>
        borderStep ==
            IF border.enabled /\ border.width > 0
            THEN <<[op |-> "border", color |-> border.color, width |-> border.width]>>
            ELSE <<>>
        dateStep == IF date.enabled THEN <<[op |-> "date"]>> ELSE <<>>
        all == [i \in 1..Len(ls) |-> [op |-> "layer", index |-> i - 1, layer |-> ls[i]]]
        drawn(s) == s.layer.type = "text" \/ s.layer.src \in imgs
        selection ==
            IF HasSelectedLayer(ls, sel)
            THEN <<[op |-> "selection", index |-> sel, layer |-> At(ls, sel)]>>
            ELSE <<>>
    IN  [width |-> size.width, height |-> size.height,
         ops |-> background \o borderStep \o dateStep \o SelectSeq(all, drawn)
                 \o selection]

\* a render effect that does not run again when only the selection changed
RepaintUnlessSelection ==
    canvas' = IF <<canvasSize', backgroundColor', backgroundImage', borderOptions',
                   dateOptions', layers', imageObjects'>>
                 = <<canvasSize, backgroundColor, backgroundImage, borderOptions,
                     dateOptions, layers, imageObjects>>
              THEN canvas
              ELSE Render(canvasSize', backgroundColor', backgroundImage', borderOptions',
                          dateOptions', layers', imageObjects', selectedLayerIndex')

\* the render effect after a commit (its dependencies are every cell it reads)
Repaint ==
    canvas' = Render(canvasSize', backgroundColor', backgroundImage', borderOptions',
                     dateOptions', layers', imageObjects', selectedLayerIndex')

(***************************************************************************)
(* The image loading effect: one decode per image layer, and one for the   *)
(* background image, whose source is not in the cache.  It runs after      *)
(* every commit that changed layers, backgroundImage or imageObjects.      *)
(***************************************************************************)
RECURSIVE SumOver(_, _)
SumOver(f, S) == IF S = {} THEN 0
                 ELSE LET s == CHOOSE s \in S : TRUE IN f[s] + SumOver(f, S \ {s})

LoadsNeeded(ls, bgImage, imgs) ==
    [s \in Srcs |->
        IF s \in imgs THEN 0
        ELSE Cardinality({ i \in 1..Len(ls) : ls[i].type = "image" /\ ls[i].src = s })
             + (IF bgImage = s THEN 1 ELSE 0)]

ImageLoadingEffect ==
    LET need == LoadsNeeded(layers', backgroundImage', imageObjects')
        new == [s \in Srcs |-> imageLoads[s] + need[s]]
    IN  /\ SumOver(new, Srcs) <= MaxLoads
        /\ imageLoads' = new

(***************************************************************************)
(* Initial state: the component as constructed, before its mount effects.  *)
(***************************************************************************)
\* a template a previous session stored
StoredTemplate ==
    [name |-> "A", layers |-> <<NewTextLayer([width |-> 1080, height |-> 1080])>>,
     canvasSize |-> [width |-> 1080, height |-> 1080],
     backgroundColor |-> "#ff0000",
     borderOptions |-> [color |-> "#000000", width |-> 20, enabled |-> FALSE],
     dateOptions |-> [enabled |-> FALSE]]

\* what the storage key can hold when the page opens
InitialStorages ==
    { NoItem, Item(EmptyText), Item(InvalidText), Item(JsonText(JsonNull)),
      Item(JsonText(JsonObject)), Item(JsonStringify(<<>>)), Item(JsonStringify(<<StoredTemplate>>)) }

EmptyLoads == [s \in Srcs |-> 0]

\* the templates a storage content yields on start-up (none unless it is an array)
StoredItems(st) ==
    IF LoadedTemplates(st).tag = "array" THEN LoadedTemplates(st).items ELSE <<>>

\* the scene as the spec defines it: canvas size, background (colour and image
\* reference), border, date, layers
LiveScene ==
    [canvasSize |-> canvasSize, backgroundColor |-> backgroundColor,
     backgroundImage |-> backgroundImage, borderOptions |-> borderOptions,
     dateOptions |-> dateOptions, layers |-> layers]

InitWith(st) ==
    /\ canvasSize = [width |-> 1280, height |-> 720]
    /\ backgroundColor = "#1a1a1a"
    /\ backgroundImage = NullStr
    /\ borderOptions = [color |-> "#000000", width |-> 20, enabled |-> TRUE]
    /\ dateOptions = [enabled |-> TRUE]
    /\ layers = <<InitialLayer>>
    /\ selectedLayerIndex = 0
    /\ imageObjects = {}
    /\ templates = JsArray(<<>>)
    /\ dragInfo = [isDragging |-> FALSE, targetIndex |-> NullIndex, startX |-> 0, startY |-> 0]
    /\ storage = st
    /\ canvas = [width |-> 1280, height |-> 720, ops |-> <<>>]
    /\ mounted = FALSE
    /\ picker = <<>>
    /\ imageAdds = <<>>
    /\ bgReads = EmptyLoads
    /\ imageLoads = EmptyLoads
    /\ timers = 0
    /\ exported = [captured |-> FALSE]
    /\ savedScenes = [i \in 1..Len(StoredItems(st)) |-> [known |-> FALSE]]
    /\ templateRefs = <<>>
    /\ lastOp = [kind |-> "construct"]

Init == \E st \in InitialStorages : InitWith(st)

\* the handlers run only while the component is mounted
Ready == mounted /\ ~Crashed

\* groups of cells, for the frame conditions
sceneCells == <<canvasSize, backgroundColor, backgroundImage, borderOptions, dateOptions>>
templateCells == <<templates, storage, savedScenes, templateRefs>>
asyncCells == <<picker, imageAdds, bgReads, timers, exported>>

(***************************************************************************)
(* Mount: the three effects run once after the first render.               *)
(***************************************************************************)
\* the arrays JSON.parse allocates for the layers of the parsed templates: new
\* ones, none of them the array of the layers cell
ParsedRefs(value) ==
    IF value.tag = "array" THEN [i \in 1..Len(value.items) |-> i] ELSE <<>>

Mount ==
    /\ ~mounted
    /\ mounted' = TRUE
    /\ templates' = LoadedTemplates(storage)
    /\ templateRefs' = ParsedRefs(templates')
    /\ lastOp' = [kind |-> "mount"]
    /\ UNCHANGED <<sceneCells, layers, selectedLayerIndex, imageObjects, dragInfo,
                   storage, savedScenes, asyncCells>>
    /\ ImageLoadingEffect
    /\ Repaint

\* the page is reloaded: the component is constructed anew, the storage stays
Reload ==
    /\ canvasSize' = [width |-> 1280, height |-> 720]
    /\ backgroundColor' = "#1a1a1a"
    /\ backgroundImage' = NullStr
    /\ borderOptions' = [color |-> "#000000", width |-> 20, enabled |-> TRUE]
    /\ dateOptions' = [enabled |-> TRUE]
    /\ layers' = <<InitialLayer>>
    /\ selectedLayerIndex' = 0
    /\ imageObjects' = {}
    /\ templates' = JsArray(<<>>)
    /\ dragInfo' = [isDragging |-> FALSE, targetIndex |-> NullIndex,
                    startX |-> 0, startY |-> 0]
    /\ canvas' = [width |-> 1280, height |-> 720, ops |-> <<>>]
    /\ mounted' = FALSE
    /\ picker' = <<>>
    /\ imageAdds' = <<>>
    /\ bgReads' = EmptyLoads
    /\ imageLoads' = EmptyLoads
    /\ timers' = 0
    /\ templateRefs' = <<>>
    /\ lastOp' = [kind |-> "reload"]
    /\ UNCHANGED <<storage, savedScenes, exported>>

(***************************************************************************)
(* Layer handlers.                                                         *)
(***************************************************************************)
\* the arrays numbered in the order of the entries that hold them (0 stays 0)
FirstWith(refs, j) ==
    CHOOSE i \in 1..j : refs[i] = refs[j] /\ \A h \in 1..(i - 1) : refs[h] # refs[j]
Renumbered(refs) ==
    [j \in 1..Len(refs) |->
        IF refs[j] = 0 THEN 0
        ELSE Cardinality({ refs[i] : i \in 1..FirstWith(refs, j) } \ {0})]

\* the layers cell takes a new array: the entries that hold the former one keep it
Detached(refs) ==
    Renumbered([j \in 1..Len(refs) |-> IF refs[j] = 0 THEN Len(refs) + 1 ELSE refs[j]])

\* the layers cell takes the array of the k-th entry
Attached(refs, k) ==
    IF refs[k] = 0 THEN refs
    ELSE Renumbered([j \in 1..Len(refs) |->
                       IF refs[j] = 0 THEN Len(refs) + 1
                       ELSE IF refs[j] = refs[k] THEN 0 ELSE refs[j]])

\* a write that changes the array of the layers cell in place: every template
\* entry holding that array shows the new content
TemplateItemsWrittenInPlace(items, refs, newLayers) ==
    [j \in 1..Len(items) |->
        IF refs[j] = 0 THEN [items[j] EXCEPT !.layers = newLayers] ELSE items[j]]

\* the template entries after setLayers(newLayers) with a list built by map,
\* filter or spread: the list is a new array, and the arrays the entries hold
\* (the array of the layers cell may be one of them) are not written
TemplateItemsAfterSetLayers(items, refs, newLayers) == items

\* the commit of such a setLayers call
NewArrayCommitted ==
    /\ templateRefs' = Detached(templateRefs)
    /\ templates' = IF templates.tag = "array"
                     THEN JsArray(TemplateItemsAfterSetLayers(templates.items, templateRefs,
                                                              layers'))
                     ELSE templates

\* an edit applied to every layer of the selected layer's type
LayerPropChangeAll(ls, sel, prop, value) ==
    IF ~(sel >= 0 /\ sel < Len(ls)) THEN ls
    ELSE [i \in 1..Len(ls) |->
            IF ls[i].type = ls[sel + 1].type THEN [ls[i] EXCEPT ![prop] = value]
            ELSE ls[i]]

\* handleLayerPropChange: the value it passes to setLayers (the list itself when
\* it returns early)
LayerPropChange(ls, sel, prop, value) ==
    IF sel = NullIndex THEN ls
    ELSE [i \in 1..Len(ls) |->
            IF i - 1 = sel THEN [ls[i] EXCEPT ![prop] = value] ELSE ls[i]]

\* a control of the layer panel changes one property of the selected layer; the
\* panel shows the text controls for a text layer, the image controls for an
\* image layer, and the shadow controls only while the shadow is enabled
HandleLayerPropChange(edit) ==
    /\ Ready
    /\ HasSelectedLayer(layers, selectedLayerIndex)
    /\ edit \in (IF At(layers, selectedLayerIndex).type = "text"
                 THEN TextEdits ELSE ImageEdits)
    /\ layers' = LayerPropChange(layers, selectedLayerIndex, edit.prop, edit.value)
    /\ NewArrayCommitted
    /\ lastOp' = [kind |-> "propChange", prop |-> edit.prop]
    /\ UNCHANGED <<sceneCells, selectedLayerIndex, imageObjects, dragInfo,
                   storage, savedScenes, mounted, asyncCells>>
    /\ ImageLoadingEffect
    /\ Repaint

\* addLayer('text')
AddTextLayer ==
    /\ Ready
    /\ Len(layers) < MaxLayers
    /\ LET newLayers == Append(layers, NewTextLayer(canvasSize))
       IN  /\ layers' = newLayers
           /\ selectedLayerIndex' = Len(newLayers) - 1
    /\ NewArrayCommitted
    /\ lastOp' = [kind |-> "addText"]
    /\ UNCHANGED <<sceneCells, imageObjects, dragInfo, storage, savedScenes,
                   mounted, asyncCells>>
    /\ ImageLoadingEffect
    /\ Repaint

\* addLayer('image'): creates the file input and opens the picker; the input's
\* onchange closes over this render's canvasSize
AddImageLayer ==
    /\ Ready
    /\ Len(picker) + Len(imageAdds) < MaxImageAdds
    /\ picker' = Append(picker, canvasSize)
    /\ lastOp' = [kind |-> "addImage"]
    /\ UNCHANGED <<sceneCells, layers, selectedLayerIndex, imageObjects, dragInfo,
                   templateCells, mounted, imageAdds, bgReads, imageLoads, timers,
                   exported, canvas>>

RemoveAt(s, k) == [i \in 1..(Len(s) - 1) |-> IF i < k THEN s[i] ELSE s[i + 1]]

\* input.onchange with a file: the FileReader starts
PickerChange(k, file) ==
    /\ mounted
    /\ k \in 1..Len(picker)
    /\ file \in ImageFiles
    /\ picker' = RemoveAt(picker, k)
    /\ imageAdds' = Append(imageAdds, [img |-> file, size |-> picker[k]])
    /\ lastOp' = [kind |-> "pickFile", file |-> file.src]
    /\ UNCHANGED <<sceneCells, layers, selectedLayerIndex, imageObjects, dragInfo,
                   templateCells, mounted, bgReads, imageLoads, timers, exported, canvas>>

\* the picker is closed without a file: onchange with no file, or no event at all
PickerCancel(k) ==
    /\ mounted
    /\ k \in 1..Len(picker)
    /\ picker' = RemoveAt(picker, k)
    /\ lastOp' = [kind |-> "pickNothing"]
    /\ UNCHANGED <<sceneCells, layers, selectedLayerIndex, imageObjects, dragInfo,
                   templateCells, mounted, imageAdds, bgReads, imageLoads, timers,
                   exported, canvas>>

\* reader.onload and then img.onload of addLayer: the layer is appended to the
\* list of the moment (functional update) and selected
ImageLayerLoaded(k) ==
    /\ Ready
    /\ k \in 1..Len(imageAdds)
    /\ Len(layers) < MaxLayers
    /\ LET newLayers == Append(layers, NewImageLayer(imageAdds[k].img, imageAdds[k].size))
       IN  /\ layers' = newLayers
           /\ selectedLayerIndex' = Len(newLayers) - 1
    /\ NewArrayCommitted
    /\ imageAdds' = RemoveAt(imageAdds, k)
    /\ lastOp' = [kind |-> "imageLayerLoaded", src |-> imageAdds[k].img.src]
    /\ UNCHANGED <<sceneCells, imageObjects, dragInfo, storage, savedScenes,
                   mounted, picker,
                   bgReads, timers, exported>>
    /\ ImageLoadingEffect
    /\ Repaint

\* a delete that drops the last layer instead of the selected one
DeleteLastLayer(ls, sel) == KeepAt(ls, { i \in 1..Len(ls) : i # Len(ls) })

\* the list deleteSelectedLayer passes to setLayers:
\* layers.filter((_, index) => index !== selectedLayerIndex)
DeleteLayer(ls, sel) == KeepAt(ls, { i \in 1..Len(ls) : i - 1 # sel })

\* deleteSelectedLayer (its button is in the layer panel, shown for a selected layer)
DeleteSelectedLayer ==
    /\ Ready
    /\ HasSelectedLayer(layers, selectedLayerIndex)
    /\ layers' = DeleteLayer(layers, selectedLayerIndex)
    /\ NewArrayCommitted
    /\ selectedLayerIndex' = NullIndex
    /\ lastOp' = [kind |-> "deleteLayer", index |-> selectedLayerIndex]
    /\ UNCHANGED <<sceneCells, imageObjects, dragInfo, storage, savedScenes,
                   mounted, asyncCells>>
    /\ ImageLoadingEffect
    /\ Repaint

(***************************************************************************)
(* Export.                                                                 *)
(***************************************************************************)
\* handleDownload: clears the selection and sets a 100 ms timer
HandleDownload ==
    /\ Ready
    /\ timers < MaxTimers
    /\ selectedLayerIndex' = NullIndex
    /\ timers' = timers + 1
    /\ lastOp' = [kind |-> "download"]
    /\ UNCHANGED <<sceneCells, layers, imageObjects, dragInfo, templateCells, mounted,
                   picker, imageAdds, bgReads, imageLoads, exported>>
    /\ Repaint

\* the timer's callback: canvas.toDataURL captures what the canvas shows
DownloadTimeout ==
    /\ Ready
    /\ timers > 0
    /\ timers' = timers - 1
    /\ exported' = [captured |-> TRUE, image |-> canvas]
    /\ lastOp' = [kind |-> "capture"]
    /\ UNCHANGED <<sceneCells, layers, selectedLayerIndex, imageObjects, dragInfo,
                   templateCells, mounted, picker, imageAdds, bgReads, imageLoads, canvas>>

(***************************************************************************)
(* Template handlers.                                                      *)
(***************************************************************************)
\* a guard that tests the name against null only
NameNotNull(name) == name # NullStr

\* if (!name) return: prompt gave null or the empty string
NameGiven(name) == name # NullStr /\ name # ""

\* const templateData: Template = { name, layers, canvasSize, backgroundColor,
\*                                  borderOptions, dateOptions }
TemplateData(name) ==
    [name |-> name, layers |-> layers, canvasSize |-> canvasSize,
     backgroundColor |-> backgroundColor, borderOptions |-> borderOptions,
     dateOptions |-> dateOptions]

\* a save that appends the record twice
NewTemplatesTwice(items, templateData) == Append(Append(items, templateData), templateData)

\* const newTemplates = [...templates, templateData]
NewTemplates(items, templateData) == Append(items, templateData)

\* saveTemplate, with what prompt returned
SaveTemplate(name) ==
    /\ Ready
    /\ name \in PromptResults
    /\ IF NameGiven(name)
       THEN /\ Len(templates.items) < MaxTemplates
            /\ LET newTemplates == NewTemplates(templates.items, TemplateData(name))
               IN  /\ templates' = JsArray(newTemplates)
                   /\ storage' = Item(JsonStringify(newTemplates))
                   /\ savedScenes' = Append(savedScenes,
                                            [known |-> TRUE, scene |-> LiveScene])
                   /\ templateRefs' = Append(templateRefs, 0)
       ELSE UNCHANGED templateCells
    /\ lastOp' = [kind |-> "saveTemplate", name |-> name]
    /\ UNCHANGED <<sceneCells, layers, selectedLayerIndex, imageObjects, dragInfo,
                   mounted, asyncCells, imageLoads, canvas>>

\* loadTemplate(template), template the k-th entry of the list.  The image
\* loading effect runs when template.layers is another array than the one the
\* layers cell holds (it is the same one when the template was just saved or
\* applied and the list was not written since)
LoadTemplate(k) ==
    /\ Ready
    /\ k \in 1..Len(templates.items)
    /\ LET template == templates.items[k]
       IN  /\ canvasSize' = template.canvasSize
           /\ backgroundColor' = template.backgroundColor
           /\ borderOptions' = template.borderOptions
           /\ dateOptions' = template.dateOptions
           /\ layers' = template.layers
           /\ templateRefs' = Attached(templateRefs, k)
           /\ selectedLayerIndex' = NullIndex
    /\ lastOp' = [kind |-> "loadTemplate", index |-> k - 1]
    /\ UNCHANGED <<backgroundImage, imageObjects, dragInfo, templates, storage,
                   savedScenes, mounted, asyncCells>>
    /\ IF templateRefs[k] # 0 THEN ImageLoadingEffect ELSE UNCHANGED imageLoads
    /\ Repaint

\* a delete that removes only the first entry of that name
FilterFirstTemplate(items, name) ==
    LET first == CHOOSE i \in 1..Len(items) :
                     items[i].name = name /\ \A j \in 1..(i - 1) : items[j].name # name
    IN  IF \E i \in 1..Len(items) : items[i].name = name
        THEN KeepAt(items, { i \in 1..Len(items) : i # first })
        ELSE items

\* templates.filter(t => t.name !== name)
FilterTemplates(items, name) == SelectSeq(items, LAMBDA t : t.name # name)

\* deleteTemplate(template.name), from the delete button of the k-th entry
DeleteTemplate(k) ==
    /\ Ready
    /\ k \in 1..Len(templates.items)
    /\ LET name == templates.items[k].name
           newTemplates == FilterTemplates(templates.items, name)
           kept == { i \in 1..Len(templates.items) : templates.items[i].name # name }
       IN  /\ templates' = JsArray(newTemplates)
           /\ storage' = Item(JsonStringify(newTemplates))
           /\ savedScenes' = KeepAt(savedScenes, kept)
           /\ templateRefs' = Renumbered(KeepAt(templateRefs, kept))
           /\ lastOp' = [kind |-> "deleteTemplate", name |-> name,
                         removed |-> Len(templates.items) - Len(newTemplates)]
    /\ UNCHANGED <<sceneCells, layers, selectedLayerIndex, imageObjects, dragInfo,
                   mounted, asyncCells, imageLoads, canvas>>

(***************************************************************************)
(* Mouse handlers.                                                         *)
(***************************************************************************)
\* the callback of findIndex in handleMouseDown: the layer's rectangle, centred
\* at (x, y), contains pos (edges included)
HitTest(layer, pos) ==
    LET width == IF layer.type = "text" THEN FracOfInt(MeasureText(layer))
                 ELSE FracOfInt(layer.width)
        height == IF layer.type = "text" THEN FracOfInt(layer.fontSize)
                  ELSE layer.height
        rectX == FracSub(FracOfInt(layer.x), FracHalf(width))
        rectY == FracSub(FracOfInt(layer.y), FracHalf(height))
        posX == FracOfInt(pos.x)
        posY == FracOfInt(pos.y)
    IN  /\ FracLeq(rectX, posX) /\ FracLeq(posX, FracAdd(rectX, width))
        /\ FracLeq(rectY, posY) /\ FracLeq(posY, FracAdd(rectY, height))

\* [...layers].reverse()
Reverse(s) == [i \in 1..Len(s) |-> s[Len(s) + 1 - i]]

\* Array.prototype.findIndex with the hit test: the first 0-based index that
\* satisfies it, or -1
FindIndex(s, pos) ==
    IF \E i \in 1..Len(s) : HitTest(s[i], pos)
    THEN (CHOOSE i \in 1..Len(s) :
             HitTest(s[i], pos) /\ \A j \in 1..(i - 1) : ~HitTest(s[j], pos)) - 1
    ELSE 0 - 1

\* a hit test that scans from the first layer: findIndex without reverse()
ClickedLayerIndexUnreversed(ls, pos) == FindIndex(ls, pos)

\* const clickedLayerIndex = [...layers].reverse().findIndex(...)
ClickedLayerIndex(ls, pos) == FindIndex(Reverse(ls), pos)

\* handleMouseDown
HandleMouseDown(pos) ==
    /\ Ready
    /\ LET clickedLayerIndex == ClickedLayerIndex(layers, pos)
           originalIndex == Len(layers) - 1 - clickedLayerIndex
       IN  IF clickedLayerIndex # 0 - 1
           THEN /\ selectedLayerIndex' = originalIndex
                /\ dragInfo' = [isDragging |-> TRUE, targetIndex |-> originalIndex,
                                startX |-> pos.x - At(layers, originalIndex).x,
                                startY |-> pos.y - At(layers, originalIndex).y]
           ELSE /\ selectedLayerIndex' = NullIndex
                /\ UNCHANGED dragInfo
    /\ lastOp' = [kind |-> "mouseDown", pos |-> pos]
    /\ UNCHANGED <<sceneCells, layers, imageObjects, templateCells, mounted, asyncCells,
                   imageLoads>>
    /\ Repaint

\* (with no selection handleLayerPropChange returns before setLayers, so nothing
\* is committed and no effect runs)
\* the state after a handler's setLayers calls: each call passes a value (not an
\* updater), so the last value passed is the state of the next render
LastSet(ls, calls) == IF calls = <<>> THEN ls ELSE calls[Len(calls)]

\* a pointer-move that also brings the dragged layer to the front
MouseMoveCallsToFront(ls, sel, info, pos) ==
    IF ~(sel >= 0 /\ sel < Len(ls)) THEN <<>>
    ELSE LET moved == [ls[sel + 1] EXCEPT !.y = pos.y - info.startY]
         IN  << Append(KeepAt(ls, { i \in 1..Len(ls) : i # sel + 1 }), moved) >>

\* the setLayers calls handleMouseMove makes through handleLayerPropChange: both
\* read the layers and selectedLayerIndex of the render the handler belongs to
MouseMoveCalls(ls, sel, info, pos) ==
    IF sel = NullIndex THEN <<>>
    ELSE << LayerPropChange(ls, sel, "x", pos.x - info.startX),
            LayerPropChange(ls, sel, "y", pos.y - info.startY) >>

\* handleMouseMove while a drag is on (it returns at once otherwise)
HandleMouseMove(pos) ==
    /\ Ready
    /\ lastOp' = [kind |-> "mouseMove", pos |-> pos]
    /\ UNCHANGED <<sceneCells, selectedLayerIndex, imageObjects, dragInfo, storage,
                   savedScenes, mounted, asyncCells>>
    /\ IF /\ dragInfo.isDragging /\ dragInfo.targetIndex # NullIndex
          /\ MouseMoveCalls(layers, selectedLayerIndex, dragInfo, pos) # <<>>
       THEN /\ layers' = LastSet(layers,
                                 MouseMoveCalls(layers, selectedLayerIndex, dragInfo, pos))
            /\ NewArrayCommitted
            /\ ImageLoadingEffect
       ELSE UNCHANGED <<layers, templates, templateRefs, imageLoads>>
    /\ Repaint

\* a canvas whose onMouseLeave is not bound: only the pointer-up clears the drag
HandleMouseUpOnly(kind) ==
    /\ Ready
    /\ dragInfo' = IF kind = "mouseUp"
                   THEN [isDragging |-> FALSE, targetIndex |-> NullIndex,
                         startX |-> 0, startY |-> 0]
                   ELSE dragInfo
    /\ lastOp' = [kind |-> kind]
    /\ UNCHANGED <<sceneCells, layers, selectedLayerIndex, imageObjects, templateCells,
                   mounted, asyncCells, imageLoads, canvas>>

\* handleMouseUp, bound to onMouseUp and to onMouseLeave
HandleMouseUp(kind) ==
    /\ Ready
    /\ dragInfo' = [isDragging |-> FALSE, targetIndex |-> NullIndex,
                    startX |-> 0, startY |-> 0]
    /\ lastOp' = [kind |-> kind]
    /\ UNCHANGED <<sceneCells, layers, selectedLayerIndex, imageObjects, templateCells,
                   mounted, asyncCells, imageLoads, canvas>>

(***************************************************************************)
(* Canvas settings (the panel shown while no layer is selected).           *)
(***************************************************************************)
SetCanvasSize(size) ==
    /\ Ready
    /\ ~HasSelectedLayer(layers, selectedLayerIndex)
    /\ size \in CanvasSizes
    /\ canvasSize' = size
    /\ lastOp' = [kind |-> "setCanvasSize"]
    /\ UNCHANGED <<backgroundColor, backgroundImage, borderOptions, dateOptions, layers,
                   selectedLayerIndex, imageObjects, dragInfo, templateCells, mounted,
                   asyncCells, imageLoads>>
    /\ Repaint

\* the colour input: setBackgroundColor(value); setBackgroundImage(null); the
\* image loading effect runs when backgroundImage changed
SetBackgroundColor(color) ==
    /\ Ready
    /\ ~HasSelectedLayer(layers, selectedLayerIndex)
    /\ color \in BackgroundColors
    /\ backgroundColor' = color
    /\ backgroundImage' = NullStr
    /\ lastOp' = [kind |-> "setBackgroundColor"]
    /\ UNCHANGED <<canvasSize, borderOptions, dateOptions, layers, selectedLayerIndex,
                   imageObjects, dragInfo, templateCells, mounted, asyncCells>>
    /\ IF backgroundImage # NullStr THEN ImageLoadingEffect ELSE UNCHANGED imageLoads
    /\ Repaint

\* the background file input with a file: the FileReader starts
PickBackgroundFile(file) ==
    /\ Ready
    /\ ~HasSelectedLayer(layers, selectedLayerIndex)
    /\ file \in ImageFiles
    /\ SumOver(bgReads, Srcs) < MaxImageAdds
    /\ bgReads' = [bgReads EXCEPT ![file.src] = @ + 1]
    /\ lastOp' = [kind |-> "pickBackground", file |-> file.src]
    /\ UNCHANGED <<sceneCells, layers, selectedLayerIndex, imageObjects, dragInfo,
                   templateCells, mounted, picker, imageAdds, imageLoads, timers,
                   exported, canvas>>

\* reader.onload of the background file input: setBackgroundImage(result)
BackgroundFileRead(src) ==
    /\ Ready
    /\ src \in Srcs
    /\ bgReads[src] > 0
    /\ bgReads' = [bgReads EXCEPT ![src] = @ - 1]
    /\ backgroundImage' = src
    /\ lastOp' = [kind |-> "backgroundRead", src |-> src]
    /\ UNCHANGED <<canvasSize, backgroundColor, borderOptions, dateOptions, layers,
                   selectedLayerIndex, imageObjects, dragInfo, templateCells, mounted,
                   picker, imageAdds, timers, exported>>
    /\ IF backgroundImage # src THEN ImageLoadingEffect ELSE UNCHANGED imageLoads
    /\ Repaint

\* the border controls: the checkbox, and (while enabled) the width and colour
SetBorderOptions(options) ==
    /\ Ready
    /\ ~HasSelectedLayer(layers, selectedLayerIndex)
    /\ options \in { [borderOptions EXCEPT !.enabled = ~@] }
                   \cup (IF borderOptions.enabled
                         THEN { [borderOptions EXCEPT !.width = 0],
                                [borderOptions EXCEPT !.color = "#ff0000"] }
                         ELSE {})
    /\ borderOptions' = options
    /\ lastOp' = [kind |-> "setBorderOptions"]
    /\ UNCHANGED <<canvasSize, backgroundColor, backgroundImage, dateOptions, layers,
                   selectedLayerIndex, imageObjects, dragInfo, templateCells, mounted,
                   asyncCells, imageLoads>>
    /\ Repaint

\* the date checkbox
SetDateOptions(enabled) ==
    /\ Ready
    /\ ~HasSelectedLayer(layers, selectedLayerIndex)
    /\ enabled \in BOOLEAN
    /\ dateOptions' = [dateOptions EXCEPT !.enabled = enabled]
    /\ lastOp' = [kind |-> "setDateOptions"]
    /\ UNCHANGED <<canvasSize, backgroundColor, backgroundImage, borderOptions, layers,
                   selectedLayerIndex, imageObjects, dragInfo, templateCells, mounted,
                   asyncCells, imageLoads>>
    /\ Repaint

(***************************************************************************)
(* img.onload of the image loading effect: the decoded image enters the    *)
(* cache.                                                                  *)
(***************************************************************************)
ImageDecoded(src) ==
    /\ Ready
    /\ src \in Srcs
    /\ imageLoads[src] > 0
    /\ imageObjects' = imageObjects \cup {src}
    /\ lastOp' = [kind |-> "imageDecoded", src |-> src]
    /\ UNCHANGED <<sceneCells, layers, selectedLayerIndex, dragInfo, templateCells,
                   mounted, asyncCells>>
    /\ LET need == LoadsNeeded(layers', backgroundImage', imageObjects')
           new == [s \in Srcs |-> imageLoads[s] - (IF s = src THEN 1 ELSE 0) + need[s]]
       IN  /\ SumOver(new, Srcs) <= MaxLoads
           /\ imageLoads' = new
    /\ Repaint

(***************************************************************************)
(* Specifications.                                                         *)
(***************************************************************************)
Next ==
    \/ Mount
    \/ \E edit \in TextEdits \cup ImageEdits : HandleLayerPropChange(edit)
    \/ AddTextLayer
    \/ AddImageLayer
    \/ \E k \in 1..MaxImageAdds, file \in ImageFiles : PickerChange(k, file)
    \/ \E k \in 1..MaxImageAdds : PickerCancel(k)
    \/ \E k \in 1..MaxImageAdds : ImageLayerLoaded(k)
    \/ DeleteSelectedLayer
    \/ HandleDownload
    \/ DownloadTimeout
    \/ \E name \in PromptResults : SaveTemplate(name)
    \/ \E k \in 1..MaxTemplates : LoadTemplate(k)
    \/ \E k \in 1..MaxTemplates : DeleteTemplate(k)
    \/ \E pos \in PointerPositions : HandleMouseDown(pos)
    \/ \E pos \in PointerPositions : HandleMouseMove(pos)
    \/ \E kind \in {"mouseUp", "mouseLeave"} : HandleMouseUp(kind)
    \/ \E size \in CanvasSizes : SetCanvasSize(size)
    \/ \E color \in BackgroundColors : SetBackgroundColor(color)
    \/ \E file \in ImageFiles : PickBackgroundFile(file)
    \/ \E src \in Srcs : BackgroundFileRead(src)
    \/ \E options \in [color : {"#000000", "#ff0000"}, width : {0, 20}, enabled : BOOLEAN] :
           SetBorderOptions(options)
    \/ \E enabled \in BOOLEAN : SetDateOptions(enabled)
    \/ \E src \in Srcs : ImageDecoded(src)
    \/ Reload

Spec == Init /\ [][Next]_vars

\* the page opened with nothing stored
InitFresh == InitWith(NoItem)

\* the page opened with one template stored
InitStored == InitWith(Item(JsonStringify(<<StoredTemplate>>)))

\* pointer positions of the focused specifications: over the initial layer with
\* offset (10,10) from its centre, away from every new layer, and on the right
\* edge of the initial layer's box
DragPositions == { [x |-> 650, y |-> 370], [x |-> 300, y |-> 150],
                   [x |-> 1000, y |-> 370] }
WideFile == { f \in ImageFiles : f.src = "data:wide" }

\* pointer sessions over text and image layers
NextDrag ==
    \/ Mount
    \/ AddTextLayer
    \/ AddImageLayer
    \/ \E k \in 1..MaxImageAdds, file \in WideFile : PickerChange(k, file)
    \/ \E k \in 1..MaxImageAdds : ImageLayerLoaded(k)
    \/ \E src \in Srcs : ImageDecoded(src)
    \/ \E pos \in DragPositions : HandleMouseDown(pos)
    \/ \E pos \in DragPositions : HandleMouseMove(pos)
    \/ \E kind \in {"mouseUp", "mouseLeave"} : HandleMouseUp(kind)

SpecDrag == InitFresh /\ [][NextDrag]_vars

(***************************************************************************)
(* Claims about dragging and hit-testing (SpecDrag).                       *)
(***************************************************************************)
\* whether a drag session is on, and the layer it was started on
Dragging == dragInfo.isDragging /\ dragInfo.targetIndex # NullIndex

\* C1: after a pointer-down that hit a layer at offset (dx,dy) from its centre,
\* every pointer-move to (px,py) while dragging leaves that layer's centre at
\* (px-dx, py-dy): the move updates both x and y.
C1_DragKeepsGrabOffset ==
    (lastOp.kind = "mouseMove" /\ Dragging /\ dragInfo.targetIndex < Len(layers)) =>
        /\ At(layers, dragInfo.targetIndex).x = lastOp.pos.x - dragInfo.startX
        /\ At(layers, dragInfo.targetIndex).y = lastOp.pos.y - dragInfo.startY

\* the bounding box of the claim: width by height centred at (x, y), edges
\* included; a text layer is its measured width by its font size
Abs(i) == IF i < 0 THEN 0 - i ELSE i
InBox(layer, p) ==
    IF layer.type = "text"
    THEN /\ 2 * Abs(p.x - layer.x) <= MeasureText(layer)
         /\ 2 * Abs(p.y - layer.y) <= layer.fontSize
    ELSE /\ 2 * Abs(p.x - layer.x) <= layer.width
         /\ 2 * layer.height.d * Abs(p.y - layer.y) <= layer.height.n
Covering(ls, p) == { i \in 0..(Len(ls) - 1) : InBox(At(ls, i), p) }
Topmost(S) == CHOOSE i \in S : \A j \in S : j <= i

\* C4: a pointer-down at p selects, and starts a drag on, the highest-index layer
\* whose box contains p; if no box contains p it clears the selection and starts
\* no drag.
C4_HitTestPicksTopmost ==
    [][lastOp'.kind = "mouseDown" =>
          LET cover == Covering(layers, lastOp'.pos)
          IN  IF cover # {}
              THEN /\ selectedLayerIndex' = Topmost(cover)
                   /\ dragInfo'.isDragging
                   /\ dragInfo'.targetIndex = Topmost(cover)
              ELSE /\ selectedLayerIndex' = NullIndex
                   /\ dragInfo' = dragInfo]_vars

\* a pointer-down on a point that two layers cover has selected the upper one
C4_Witness ==
    /\ lastOp.kind = "mouseDown"
    /\ Cardinality(Covering(layers, lastOp.pos)) >= 2
    /\ selectedLayerIndex = Topmost(Covering(layers, lastOp.pos))
    /\ dragInfo.isDragging

(***************************************************************************)
(* Claims about export (SpecExport).                                       *)
(***************************************************************************)
\* an export and the events that can run before its timer fires
NextExport ==
    \/ Mount
    \/ HandleDownload
    \/ DownloadTimeout
    \/ AddTextLayer
    \/ AddImageLayer
    \/ \E k \in 1..MaxImageAdds, file \in WideFile : PickerChange(k, file)
    \/ \E k \in 1..MaxImageAdds : ImageLayerLoaded(k)
    \/ \E src \in Srcs : ImageDecoded(src)
    \/ \E pos \in DragPositions : HandleMouseDown(pos)
    \/ \E kind \in {"mouseUp", "mouseLeave"} : HandleMouseUp(kind)

SpecExport == InitFresh /\ [][NextExport]_vars

\* whether a painted image shows a selection outline
HasOutline(image) == \E i \in 1..Len(image.ops) : image.ops[i].op = "selection"

\* C2: when the deferred export callback captures the canvas no layer is
\* selected and the captured image shows no selection outline, whatever ran
\* between the click on download and the capture.
C2_ExportHasNoOutline ==
    lastOp.kind = "capture" =>
        /\ selectedLayerIndex = NullIndex
        /\ exported.captured /\ ~HasOutline(exported.image)

(***************************************************************************)
(* Claims about the selection (SpecEditor).                                *)
(***************************************************************************)
EditorPositions == { [x |-> 650, y |-> 370], [x |-> 900, y |-> 370] }
EditorEdits == { [prop |-> "content", value |-> "EDITED"],
                 [prop |-> "width", value |-> 50] }

\* the operations that change the layer list or the selection: add-text,
\* add-image with its asynchronous completion, property edit, delete, pointer-down,
\* apply-template and the click on download (whose timer callback changes no cell)
NextEditor ==
    \/ Mount
    \/ AddTextLayer
    \/ AddImageLayer
    \/ \E k \in 1..MaxImageAdds, file \in WideFile : PickerChange(k, file)
    \/ \E k \in 1..MaxImageAdds : ImageLayerLoaded(k)
    \/ \E src \in Srcs : ImageDecoded(src)
    \/ \E edit \in EditorEdits : HandleLayerPropChange(edit)
    \/ DeleteSelectedLayer
    \/ \E pos \in EditorPositions : HandleMouseDown(pos)
    \/ \E k \in 1..MaxTemplates : LoadTemplate(k)
    \/ HandleDownload

SpecEditor == InitStored /\ [][NextEditor]_vars

\* the selection is none or an index of the layer list
SelectionValid ==
    selectedLayerIndex = NullIndex
    \/ (selectedLayerIndex >= 0 /\ selectedLayerIndex < Len(layers))

\* C5: in every reachable state the selected index is none or a valid index of
\* the layer list; and delete-selected-layer removes exactly the selected layer,
\* keeps the other layers in their order and leaves the selection none.
C5_SelectionNeverDangles ==
    /\ []SelectionValid
    /\ [][lastOp'.kind = "deleteLayer" =>
             LET d == lastOp'.index
             IN  /\ d = selectedLayerIndex
                 /\ Len(layers') = Len(layers) - 1
                 /\ \A i \in 0..(Len(layers') - 1) :
                        At(layers', i) = At(layers, IF i < d THEN i ELSE i + 1)
                 /\ selectedLayerIndex' = NullIndex]_vars

\* the first of two layers was selected and has been deleted
C5_Witness ==
    /\ lastOp.kind = "deleteLayer"
    /\ lastOp.index = 0
    /\ Len(layers) >= 1
    /\ selectedLayerIndex = NullIndex

(***************************************************************************)
(* Claims about the template store (SpecStore, SpecRoundTrip).             *)
(***************************************************************************)
\* a pointer position no layer covers
AwayPositions == { [x |-> 10, y |-> 10] }

\* saves, deletes and applications of templates from every start-up storage
\* content, with the background colour as the part of the scene that varies, and
\* the image picker opened and closed without a file
NextStore ==
    \/ Mount
    \/ Reload
    \/ \E name \in PromptResults : SaveTemplate(name)
    \/ \E k \in 1..MaxTemplates : LoadTemplate(k)
    \/ \E k \in 1..MaxTemplates : DeleteTemplate(k)
    \/ \E pos \in AwayPositions : HandleMouseDown(pos)
    \/ \E color \in BackgroundColors : SetBackgroundColor(color)
    \/ AddImageLayer
    \/ \E k \in 1..MaxImageAdds : PickerCancel(k)

SpecStore == Init /\ [][NextStore]_vars

\* a scene with a background image and more layers, saved, reloaded and applied
NextRoundTrip ==
    \/ Mount
    \/ Reload
    \/ \E name \in {"A"} : SaveTemplate(name)
    \/ \E k \in 1..MaxTemplates : LoadTemplate(k)
    \/ \E pos \in AwayPositions : HandleMouseDown(pos)
    \/ \E color \in {"#ff0000"} : SetBackgroundColor(color)
    \/ \E file \in WideFile : PickBackgroundFile(file)
    \/ \E src \in Srcs : BackgroundFileRead(src)
    \/ \E src \in Srcs : ImageDecoded(src)
    \/ AddTextLayer

SpecRoundTrip == InitFresh /\ [][NextRoundTrip]_vars

\* C3: saving a scene S under a name, reloading the persisted list and applying
\* that template yields a live scene equal to S in every field, the background
\* image included, with the selection cleared, whatever the live scene was.
C3_TemplateRoundTrip ==
    (lastOp.kind = "loadTemplate" /\ savedScenes[lastOp.index + 1].known) =>
        /\ LiveScene = savedScenes[lastOp.index + 1].scene
        /\ selectedLayerIndex = NullIndex

\* the storage key holds a JSON array (of templates)
HoldsList(st) == st.present /\ st.text.syntax = "json" /\ st.text.doc.t = "array"

\* the persisted template list, as a start-up would read it
Persisted(st) == IF HoldsList(st) THEN FromJson(st.text.doc).items ELSE <<>>

\* C6: after delete(name) neither the in-memory nor the persisted list holds an
\* entry of that name, the entries of other names are kept in their order, and
\* the live scene is unchanged.
C6_DeleteTemplateByName ==
    [][lastOp'.kind = "deleteTemplate" =>
          LET name == lastOp'.name
              old == templates.items
              new == templates'.items
              others == { i \in 1..Len(old) : old[i].name # name }
          IN  /\ \A i \in 1..Len(new) : new[i].name # name
              /\ HoldsList(storage')
              /\ \A i \in 1..Len(Persisted(storage')) :
                     Persisted(storage')[i].name # name
              /\ new = KeepAt(old, others)
              /\ Persisted(storage') = new
              /\ LiveScene' = LiveScene
              /\ selectedLayerIndex' = selectedLayerIndex]_vars

\* a delete has removed two entries of the same name
C6_Witness == lastOp.kind = "deleteTemplate" /\ lastOp.removed >= 2

\* C7: after start-up the template list is the persisted list when the storage
\* holds a template list, and the empty list for any other content or none; it
\* is never a non-list value.
C7_StartupLoadIsTotal ==
    lastOp.kind = "mount" =>
        /\ templates.tag = "array"
        /\ templates.items = Persisted(storage)

\* the background a scene shows and the background a template record holds
SceneBackground(scene) ==
    IF scene.backgroundImage # NullStr
    THEN [image |-> scene.backgroundImage]
    ELSE [color |-> scene.backgroundColor]
RecordBackground(t) ==
    IF "backgroundImage" \in DOMAIN t /\ t.backgroundImage # NullStr
    THEN [image |-> t.backgroundImage]
    ELSE [color |-> t.backgroundColor]

\* C8: a save with a non-empty name adds exactly one record, holding that name
\* and the current scene, at the end of the list; the earlier records stay as
\* they are; afterwards the persisted list equals the in-memory list.
C8_SaveAppends ==
    [][(lastOp'.kind = "saveTemplate" /\ lastOp'.name \notin {NullStr, ""}) =>
          LET old == templates.items
              new == templates'.items
              record == new[Len(new)]
          IN  /\ Len(new) = Len(old) + 1
              /\ \A i \in 1..Len(old) : new[i] = old[i]
              /\ record.name = lastOp'.name
              /\ record.layers = layers
              /\ record.canvasSize = canvasSize
              /\ record.borderOptions = borderOptions
              /\ record.dateOptions = dateOptions
              /\ RecordBackground(record) = SceneBackground(LiveScene)
              /\ HoldsList(storage')
              /\ Persisted(storage') = new]_vars

\* no two entries of a list have the same name
NamesUnique(items) ==
    \A i, j \in 1..Len(items) : items[i].name = items[j].name => i = j

\* C9 (as claimed): no two entries of the persisted list have the same name.
C9_NamesUnique == NamesUnique(Persisted(storage))

\* a save under a name that an entry of the list already has
ReusesName(op, items) ==
    /\ op.kind = "saveTemplate"
    /\ op.name \notin {NullStr, ""}
    /\ \E i \in 1..Len(items) : items[i].name = op.name

\* C9 (amended): a save under a name already in the list adds a second entry of
\* that name; every other step (a save under a new name, a delete, a reload)
\* leaves the names of the persisted list unique if they were.
C9_NamesUniqueUnlessReused ==
    [][IF ReusesName(lastOp', Persisted(storage))
       THEN ~NamesUnique(Persisted(storage'))
       ELSE NamesUnique(Persisted(storage)) => NamesUnique(Persisted(storage'))]_vars

\* a save under a new name has made a list of two differently named entries
C9_Witness ==
    /\ lastOp.kind = "saveTemplate"
    /\ Len(Persisted(storage)) = 2
    /\ Persisted(storage)[2].name = lastOp.name
    /\ NamesUnique(Persisted(storage))

\* C10: a save with no name (cancel or the empty string) and an image picker
\* closed without a file leave the layers, the selection, the scene and both
\* template lists as they were.
C10_AbortedOperationsChangeNothing ==
    [][(\/ lastOp'.kind = "pickNothing"
        \/ (lastOp'.kind = "saveTemplate" /\ lastOp'.name \in {NullStr, ""})) =>
          UNCHANGED <<layers, selectedLayerIndex, canvasSize, backgroundColor,
                      backgroundImage, borderOptions, dateOptions, templates,
                      storage>>]_vars

\* a save with the empty string as its name has run on a list with an entry
C10_Witness ==
    /\ lastOp.kind = "saveTemplate"
    /\ lastOp.name = ""
    /\ Len(templates.items) >= 1

(***************************************************************************)
(* Claims about the background (SpecRoundTrip).                            *)
(***************************************************************************)
\* the background step of a painted canvas (the first step of every repaint)
Background(c) == c.ops[1]

\* C11: the background is either the solid colour or the image, the one chosen
\* last: after the colour input the image reference is null and the paint fills
\* with the colour; after an image was chosen and decoded the paint draws it;
\* after a template is applied the paint fills with the template's colour.
C11_BackgroundModeExclusive ==
    /\ lastOp.kind = "setBackgroundColor" =>
           /\ backgroundImage = NullStr
           /\ Background(canvas) = [op |-> "background", color |-> backgroundColor]
    /\ (lastOp.kind = "backgroundRead" /\ lastOp.src \in imageObjects) =>
           Background(canvas) = [op |-> "background", image |-> lastOp.src]
    /\ (lastOp.kind = "imageDecoded" /\ lastOp.src = backgroundImage) =>
           Background(canvas) = [op |-> "background", image |-> lastOp.src]
    /\ lastOp.kind = "loadTemplate" =>
           Background(canvas) =
               [op |-> "background",
                color |-> templates.items[lastOp.index + 1].backgroundColor]

(***************************************************************************)
(* Claims about layer edits and layer adds (SpecEditor, SpecSizing).       *)
(***************************************************************************)
\* indices that select no layer of a list: null and the indices past its end
NoLayerIndices(ls) == { NullIndex, Len(ls), Len(ls) + 1 }

\* C12: a property edit with a valid selection replaces exactly the named field
\* of the selected layer; the layer's other fields (its type among them), every
\* other layer, the order and the selection stay.  With no selection, or an index
\* outside the list, the list handed to setLayers equals the list, without error.
C12_PropEditTouchesOneField ==
    /\ [](\A sel \in NoLayerIndices(layers) : \A prop \in {"x", "y"} :
              LayerPropChange(layers, sel, prop, 0) = layers)
    /\ [][lastOp'.kind = "propChange" =>
             LET sel == selectedLayerIndex
                 old == At(layers, sel)
                 new == At(layers', sel)
             IN  /\ sel >= 0 /\ sel < Len(layers)
                 /\ selectedLayerIndex' = sel
                 /\ Len(layers') = Len(layers)
                 /\ \A i \in 0..(Len(layers) - 1) :
                        i # sel => At(layers', i) = At(layers, i)
                 /\ DOMAIN new = DOMAIN old
                 /\ \A f \in DOMAIN old : f # lastOp'.prop => new[f] = old[f]
                 /\ \E e \in TextEdits \cup ImageEdits :
                        e.prop = lastOp'.prop /\ new[e.prop] = e.value]_vars

\* the content of the selected one of two text layers has been edited
C12_Witness ==
    /\ lastOp.kind = "propChange"
    /\ lastOp.prop = "content"
    /\ Len(layers) = 2
    /\ selectedLayerIndex = 1
    /\ At(layers, 1).content = "EDITED"
    /\ At(layers, 0).type = "text"
    /\ At(layers, 0).content # "EDITED"

\* C13: when a text layer is added, or an image layer's decode completes, the new
\* layer is put at the end of the list, the layers before it stay as they are,
\* the selection is the new last index, and the new layer's (x, y) is the centre
\* of the canvas size of that moment.
C13_AddAppendsAndSelects ==
    [][lastOp'.kind \in {"addText", "imageLayerLoaded"} =>
          LET new == layers'[Len(layers')]
          IN  /\ Len(layers') = Len(layers) + 1
              /\ \A i \in 1..Len(layers) : layers'[i] = layers[i]
              /\ selectedLayerIndex' = Len(layers') - 1
              /\ 2 * new.x = canvasSize'.width
              /\ 2 * new.y = canvasSize'.height]_vars

\* image layers added from every file, deleted and added again (the decodes for
\* the cache stay pending)
NextSizing ==
    \/ Mount
    \/ AddImageLayer
    \/ \E k \in 1..MaxImageAdds, file \in ImageFiles : PickerChange(k, file)
    \/ \E k \in 1..MaxImageAdds : ImageLayerLoaded(k)
    \/ DeleteSelectedLayer

SpecSizing == InitFresh /\ [][NextSizing]_vars

\* the file with a given source
FileOf(src) == CHOOSE f \in ImageFiles : f.src = src

PaintPositions == { [x |-> 650, y |-> 370], [x |-> 10, y |-> 10] }

\* every input of the render effect changes: background colour and image, border,
\* date, an image layer and its decode, the selection
NextPaint ==
    \/ Mount
    \/ AddImageLayer
    \/ \E k \in 1..MaxImageAdds, file \in WideFile : PickerChange(k, file)
    \/ \E k \in 1..MaxImageAdds : ImageLayerLoaded(k)
    \/ \E src \in Srcs : ImageDecoded(src)
    \/ \E pos \in PaintPositions : HandleMouseDown(pos)
    \/ \E options \in [color : {"#000000"}, width : {0, 20}, enabled : BOOLEAN] :
           SetBorderOptions(options)
    \/ \E enabled \in BOOLEAN : SetDateOptions(enabled)
    \/ \E color \in {"#ff0000"} : SetBackgroundColor(color)
    \/ \E file \in WideFile : PickBackgroundFile(file)
    \/ \E src \in Srcs : BackgroundFileRead(src)

SpecPaint == InitFresh /\ [][NextPaint]_vars

\* the place of a paint step in the fixed order
Rank(step) == CASE step.op = "background" -> 1
                [] step.op = "border" -> 2
                [] step.op = "date" -> 3
                [] step.op = "layer" -> 4
                [] step.op = "selection" -> 5

\* the paint steps of a kind
StepsOf(c, kind) == { i \in 1..Len(c.ops) : c.ops[i].op = kind }

\* C15: every repaint paints in the order background, border (only if enabled
\* with a width above 0), date (only if enabled), layers, selection outline (only
\* if a layer is selected), and paints layer i before layer i + 1.
C15_PaintOrderFixed ==
    Ready =>
        /\ StepsOf(canvas, "background") = {1}
        /\ \A i, j \in 1..Len(canvas.ops) :
               i < j => \/ Rank(canvas.ops[i]) < Rank(canvas.ops[j])
                        \/ /\ canvas.ops[i].op = "layer" /\ canvas.ops[j].op = "layer"
                           /\ canvas.ops[i].index < canvas.ops[j].index
        /\ (StepsOf(canvas, "border") # {}) <=>
               (borderOptions.enabled /\ borderOptions.width > 0)
        /\ (StepsOf(canvas, "date") # {}) <=> dateOptions.enabled
        /\ (StepsOf(canvas, "selection") # {}) <=>
               (selectedLayerIndex >= 0 /\ selectedLayerIndex < Len(layers))
        /\ \A k \in 0..(Len(layers) - 1) :
               At(layers, k).type = "text" =>
                   \E i \in StepsOf(canvas, "layer") :
                       canvas.ops[i].index = k /\ canvas.ops[i].layer = At(layers, k)

\* a repaint with all five kinds of step and two layers
C15_Witness ==
    /\ Ready
    /\ Len(canvas.ops) = 6
    /\ Cardinality(StepsOf(canvas, "layer")) = 2
    /\ StepsOf(canvas, "border") # {}
    /\ StepsOf(canvas, "date") # {}
    /\ StepsOf(canvas, "selection") # {}

\* the image a paint step draws, or NullStr if it draws none
ImageOf(step) ==
    CASE step.op = "background" ->
             (IF "image" \in DOMAIN step THEN step.image ELSE NullStr)
      [] step.op = "layer" ->
             (IF step.layer.type = "image" THEN step.layer.src ELSE NullStr)
      [] OTHER -> NullStr

\* the indices of the image layers of a source
LayersOf(ls, src) ==
    { k \in 0..(Len(ls) - 1) : At(ls, k).type = "image" /\ At(ls, k).src = src }

\* C16: no repaint draws an image that is not in the cache: an undecoded
\* background image falls back to the colour and an undecoded image layer is left
\* out; and the repaint after a decode completes draws the decoded source
\* wherever the scene references it.
C16_UndecodedSkippedThenPainted ==
    Ready =>
        /\ \A i \in 1..Len(canvas.ops) :
               ImageOf(canvas.ops[i]) # NullStr => ImageOf(canvas.ops[i]) \in imageObjects
        /\ (backgroundImage # NullStr /\ backgroundImage \notin imageObjects) =>
               canvas.ops[1] = [op |-> "background", color |-> backgroundColor]
        /\ lastOp.kind = "imageDecoded" =>
               /\ lastOp.src \in imageObjects
               /\ \A k \in LayersOf(layers, lastOp.src) :
                      \E i \in StepsOf(canvas, "layer") : canvas.ops[i].index = k
               /\ backgroundImage = lastOp.src =>
                      canvas.ops[1] = [op |-> "background", image |-> lastOp.src]

\* a decode has completed for a source that an image layer references, and the
\* repaint has drawn the layer
C16_Witness ==
    /\ Ready
    /\ lastOp.kind = "imageDecoded"
    /\ LayersOf(layers, lastOp.src) # {}
    /\ \E i \in StepsOf(canvas, "layer") : ImageOf(canvas.ops[i]) = lastOp.src

\* what a full repaint of the current state paints
Painted ==
    Render(canvasSize, backgroundColor, backgroundImage, borderOptions, dateOptions,
           layers, imageObjects, selectedLayerIndex)

\* the events whose commit changes at most the cache or the selection, so that
\* the repaint is the only thing that could touch the scene
RepaintOnlyOps == {"imageDecoded", "mouseDown"}

C17_DragIsTwoPhase ==
    /\ [](lastOp.kind = "construct" => ~dragInfo.isDragging)
    /\ [][/\ (~dragInfo.isDragging /\ dragInfo'.isDragging) =>
                 /\ lastOp'.kind = "mouseDown"
                 /\ Covering(layers, lastOp'.pos) # {}
          /\ lastOp'.kind \in {"mouseUp", "mouseLeave"} =>
                 /\ ~dragInfo'.isDragging
                 /\ dragInfo'.targetIndex = NullIndex
          /\ (lastOp'.kind = "mouseMove" /\ ~dragInfo.isDragging) =>
                 /\ layers' = layers
                 /\ selectedLayerIndex' = selectedLayerIndex
                 /\ ~dragInfo'.isDragging]_vars

\* a drag has been ended by the pointer leaving the canvas
C17_Witness ==
    /\ lastOp.kind = "mouseLeave"
    /\ ~dragInfo.isDragging
    /\ \E k \in 0..(Len(layers) - 1) : At(layers, k).y # 360

\* the pointer events of the canvas
PointerOps == {"mouseDown", "mouseMove", "mouseUp", "mouseLeave"}

\* two layers that differ at most in x and y
SameButPosition(a, b) ==
    /\ DOMAIN a = DOMAIN b
    /\ \A f \in DOMAIN a : f \notin {"x", "y"} => a[f] = b[f]

\* C18: no pointer-down, pointer-move, pointer-up or pointer-leave changes the
\* number of layers, their order, their type or any field other than the x and y
\* of a single layer.
C18_DragKeepsOrder ==
    [][lastOp'.kind \in PointerOps =>
          /\ Len(layers') = Len(layers)
          /\ \A i \in 1..Len(layers) : SameButPosition(layers[i], layers'[i])
          /\ Cardinality({ i \in 1..Len(layers) : layers'[i] # layers[i] }) <= 1]_vars

\* the lower of two layers has been moved by a drag and is still the lower one
C18_Witness ==
    /\ lastOp.kind = "mouseMove"
    /\ Len(layers) = 2
    /\ dragInfo.isDragging
    /\ selectedLayerIndex = 0
    /\ At(layers, 0) = [InitialLayer EXCEPT !.y = lastOp.pos.y - dragInfo.startY]
    /\ At(layers, 0) # InitialLayer

(***************************************************************************)
(* Claims about the decoded-image cache (SpecEditor).                      *)
(***************************************************************************)
\* C19: no key is ever removed from the cache, and for each source at most one
\* decode is started and its entry is written once: never are two decodes of a
\* source pending, and none is pending for a source already in the cache.
C19_CacheFilledOncePerSource ==
    /\ [](\A src \in Srcs :
              /\ imageLoads[src] <= 1
              /\ src \in imageObjects => imageLoads[src] = 0)
    /\ [][lastOp'.kind # "reload" => imageObjects \subseteq imageObjects']_vars

(***************************************************************************)
(* Claims about the target of a drag (SpecDrag).                           *)
(***************************************************************************)
\* C21: while the drag state is dragging the selected index is the drag target
\* recorded at pointer-down, and a pointer-move changes no layer but that one,
\* also when an image-layer add completes, or the selection changes otherwise,
\* between the pointer-down and the pointer-move.
C21_DraggedLayerIsHitLayer ==
    /\ [](Dragging => selectedLayerIndex = dragInfo.targetIndex)
    /\ [][(lastOp'.kind = "mouseMove" /\ Dragging) =>
             \A k \in 0..(Len(layers) - 1) :
                 k # dragInfo.targetIndex => At(layers', k) = At(layers, k)]_vars

(***************************************************************************)
(* Claims about stored templates and the live scene (SpecSnapshot).        *)
(***************************************************************************)
\* a pointer position over the layer of the stored template
SnapshotPositions == { [x |-> 550, y |-> 550] }

\* a template saved, applied and deleted beside the one read at start-up, between
\* operations on the live scene: property edit, drag, layer delete, canvas size,
\* background colour, border and date
NextSnapshot ==
    \/ Mount
    \/ \E name \in {"B"} : SaveTemplate(name)
    \/ \E k \in 1..MaxTemplates : LoadTemplate(k)
    \/ \E k \in 2..MaxTemplates : DeleteTemplate(k)
    \/ \E edit \in {[prop |-> "content", value |-> "EDITED"]} : HandleLayerPropChange(edit)
    \/ DeleteSelectedLayer
    \/ \E pos \in SnapshotPositions : HandleMouseDown(pos)
    \/ \E pos \in {[x |-> 300, y |-> 150]} : HandleMouseMove(pos)
    \/ \E size \in {[width |-> 1080, height |-> 1080]} : SetCanvasSize(size)
    \/ \E color \in {"#ff0000"} : SetBackgroundColor(color)
    \/ \E options \in {[color |-> "#000000", width |-> 20, enabled |-> FALSE]} :
           SetBorderOptions(options)
    \/ \E enabled \in {FALSE} : SetDateOptions(enabled)

SpecSnapshot == InitStored /\ [][NextSnapshot]_vars

\* every entry of a list is an entry of another list, in the same order
SubList(new, old) ==
    \E kept \in SUBSET (1..Len(old)) : new = KeepAt(old, kept)

====
